---- MODULE Spec2Model ----
(***************************************************************************)
(* Model of the PhonePe Pulse dashboard script (src/app.py).               *)
(*                                                                         *)
(* The script is executed top to bottom.  It reads four relational tables  *)
(* (aggregated_transaction, aggregated_user, aggregated_insurance,         *)
(* map_insurance) through grouping queries, reshapes the results with      *)
(* pandas and emits charts.  The state is the content of the tables, the   *)
(* script's data frames (its Python variables), the position in the        *)
(* script, the element emitted last, the values of the select boxes        *)
(* (st.session_state) and the cache of query results (st.cache_data).      *)
(* Next is one run of the script; Session adds the user's selections, each *)
(* of which runs the script again.                                         *)
(*                                                                         *)
(* Numbers.  Raw measures are naturals.  A nullable SQL value is an option *)
(* (<<>> is NULL, <<v>> is v).  A pandas float that may be NaN or inf is a *)
(* record [k, n, d]: k = "num" stands for the rational n/d (d > 0),        *)
(* k = "inf" for +infinity, k = "nan" for NaN.  Rationals are exact:       *)
(* floating-point rounding is not modelled.                                *)
(***************************************************************************)
EXTENDS Integers, Sequences, FiniteSets, TLC

(***************************************************************************)
(* Bounds of the model                                                     *)
(***************************************************************************)
MaxRows == 3          \* rows in a table
MaxUserRows == 2      \* rows in aggregated_user

StateSeq == <<"A", "B", "C">>      \* states, in collation order
YearSeq == <<2021, 2022>>

(***************************************************************************)
(* Values                                                                  *)
(***************************************************************************)
None == <<>>
Some(v) == <<v>>
IsNone(o) == o = <<>>

NaN == [k |-> "nan", n |-> 0, d |-> 1]
Inf == [k |-> "inf", n |-> 1, d |-> 1]
Num(a, b) == [k |-> "num", n |-> a, d |-> b]
IsNum(x) == x.k = "num"

\* IEEE comparisons: every comparison with NaN is false.
FLt(x, y) ==
    /\ x.k # "nan" /\ y.k # "nan"
    /\ \/ x.k = "num" /\ y.k = "inf"
       \/ x.k = "num" /\ y.k = "num" /\ x.n * y.d < y.n * x.d
FGe(x, y) ==
    /\ x.k # "nan" /\ y.k # "nan"
    /\ \/ x.k = "inf"
       \/ x.k = "num" /\ y.k = "num" /\ x.n * y.d >= y.n * x.d

\* float division a / b of two finite numbers given as naturals
FDiv(a, b) ==
    IF b # 0 THEN Num(a, b)
    ELSE IF a = 0 THEN NaN ELSE Inf

StateIdx(s) == CHOOSE i \in 1..Len(StateSeq) : StateSeq[i] = s

Range(s) == {s[i] : i \in 1..Len(s)}

\* every sequence that lists the elements of S in an order compatible with the
\* weak order le (a set of pairs): elements that le ties may come in any order
RECURSIVE Orderings(_, _)
Orderings(S, le) ==
    IF S = {} THEN {<<>>}
    ELSE UNION {{<<x>> \o p : p \in Orderings(S \ {x}, le)} :
                    x \in {m \in S : \A y \in S : <<m, y>> \in le}}

SetMin(S) == CHOOSE m \in S : \A x \in S : m <= x
SetMax(S) == CHOOSE m \in S : \A x \in S : m >= x

(***************************************************************************)
(* The tables.  A table is a bag of rows; it is kept as the sequence of    *)
(* its rows in a fixed canonical order (a relational table has no order of *)
(* its own).                                                               *)
(***************************************************************************)
\* A family of rows of aggregated_transaction: the states, years, payment
\* types, counts and amounts its rows take, each as a sequence.  TxnRowAt(f, k)
\* is the k-th row of family f, k in 0..NTxnRows(f)-1, in the order
\* (state, year, type, count, amount).
NTxnRows(f) ==
    Len(f.states) * Len(f.years) * Len(f.types) * Len(f.counts) * Len(f.amounts)
TxnRowAt(f, k) ==
    LET na == Len(f.amounts)
        nc == Len(f.counts)
        nt == Len(f.types)
        ny == Len(f.years)
    IN  [state |-> f.states[(k \div (na * nc * nt * ny)) + 1],
         year |-> f.years[((k \div (na * nc * nt)) % ny) + 1],
         txn_type |-> f.types[((k \div (na * nc)) % nt) + 1],
         txn_count |-> f.counts[((k \div na) % nc) + 1],
         txn_amount |-> f.amounts[(k % na) + 1]]

\* The rows of aggregated_user; both measures are nullable.
UserMeasures == <<None, Some(0), Some(1)>>
UserStates == <<"A", "B">>
NUserRows == Len(UserStates) * Len(YearSeq) * Len(UserMeasures) * Len(UserMeasures)
UserRowAt(k) ==
    LET nm == Len(UserMeasures)
    IN  [state |-> UserStates[(k \div (nm * nm * Len(YearSeq))) + 1],
         year |-> YearSeq[((k \div (nm * nm)) % Len(YearSeq)) + 1],
         device_brand |-> "X",
         device_user_count |-> 1,
         total_registered_users |-> UserMeasures[((k \div nm) % nm) + 1],
         total_app_opens |-> UserMeasures[(k % nm) + 1]]

\* the bags of at most n elements of 0..(K - 1), each as a non-decreasing sequence
RECURSIVE Bags(_, _)
Bags(n, K) ==
    IF n = 0 THEN {<<>>}
    ELSE LET P == Bags(n - 1, K)
         IN  P \cup UNION {{Append(s, k) : k \in (IF s = <<>> THEN 0 ELSE s[Len(s)])..(K - 1)} :
                           s \in {p \in P : Len(p) = n - 1}}

TxnTables(f) == {[i \in 1..Len(b) |-> TxnRowAt(f, b[i])] : b \in Bags(MaxRows, NTxnRows(f))}
UserTables == {[i \in 1..Len(b) |-> UserRowAt(b[i])] : b \in Bags(MaxUserRows, NUserRows)}

\* two states over two years: the tables of the growth computation
GrowthFamily ==
    [states |-> <<"A", "B">>, years |-> YearSeq, types |-> <<"P2P">>,
     counts |-> <<0, 1, 2>>, amounts |-> <<0, 2>>]
\* three states in one year: the tables of the market segmentation
MarketFamily ==
    [states |-> StateSeq, years |-> <<2022>>, types |-> <<"P2P">>,
     counts |-> <<0, 1, 2>>, amounts |-> <<0, 1, 2>>]
\* one state, two payment types over two years: the tables of the type trend
TypeFamily ==
    [states |-> <<"A">>, years |-> YearSeq, types |-> <<"P2P", "Recharge">>,
     counts |-> <<0, 1>>, amounts |-> <<0, 1, 2>>]

TxnSample ==
    << [state |-> "A", year |-> 2021, txn_type |-> "P2P", txn_count |-> 1, txn_amount |-> 2],
       [state |-> "A", year |-> 2022, txn_type |-> "P2P", txn_count |-> 2, txn_amount |-> 1] >>
UserSample ==
    << [state |-> "A", year |-> 2022, device_brand |-> "X", device_user_count |-> 1,
        total_registered_users |-> Some(1), total_app_opens |-> Some(2)] >>

\* The rows of aggregated_insurance of a family (states, years, counts, amounts)
NInsRows(f) == Len(f.states) * Len(f.years) * Len(f.counts) * Len(f.amounts)
InsRowAt(f, k) ==
    LET na == Len(f.amounts)
        nc == Len(f.counts)
        ny == Len(f.years)
    IN  [state |-> f.states[(k \div (na * nc * ny)) + 1],
         year |-> f.years[((k \div (na * nc)) % ny) + 1],
         ins_count |-> f.counts[((k \div na) % nc) + 1],
         ins_amount |-> f.amounts[(k % na) + 1]]

\* The rows of map_insurance of a family (states, districts, years, counts, amounts)
NMapInsRows(f) ==
    Len(f.states) * Len(f.districts) * Len(f.years) * Len(f.counts) * Len(f.amounts)
MapInsRowAt(f, k) ==
    LET na == Len(f.amounts)
        nc == Len(f.counts)
        ny == Len(f.years)
        nd == Len(f.districts)
    IN  [state |-> f.states[(k \div (na * nc * ny * nd)) + 1],
         district |-> f.districts[((k \div (na * nc * ny)) % nd) + 1],
         year |-> f.years[((k \div (na * nc)) % ny) + 1],
         ins_count |-> f.counts[((k \div na) % nc) + 1],
         ins_amount |-> f.amounts[(k % na) + 1]]

\* The rows of aggregated_user of a family (states, years, brands, users) whose
\* two measures are not null
NBrandRows(f) == Len(f.states) * Len(f.years) * Len(f.brands) * Len(f.users)
BrandRowAt(f, k) ==
    LET nu == Len(f.users)
        nb == Len(f.brands)
        ny == Len(f.years)
    IN  [state |-> f.states[(k \div (nu * nb * ny)) + 1],
         year |-> f.years[((k \div (nu * nb)) % ny) + 1],
         device_brand |-> f.brands[((k \div nu) % nb) + 1],
         device_user_count |-> f.users[(k % nu) + 1],
         total_registered_users |-> Some(1),
         total_app_opens |-> Some(1)]

InsTables(f) == {[i \in 1..Len(b) |-> InsRowAt(f, b[i])] : b \in Bags(MaxRows, NInsRows(f))}
MapInsTables(f) ==
    {[i \in 1..Len(b) |-> MapInsRowAt(f, b[i])] : b \in Bags(MaxRows, NMapInsRows(f))}
BrandTables(f) ==
    {[i \in 1..Len(b) |-> BrandRowAt(f, b[i])] : b \in Bags(MaxUserRows, NBrandRows(f))}

\* the tables of a session in which the user changes the selections
SessionFamily ==
    [states |-> <<"A", "B">>, years |-> YearSeq, types |-> <<"P2P">>,
     counts |-> <<1>>, amounts |-> <<1, 2>>]
BrandFamily ==
    [states |-> <<"A", "B">>, years |-> YearSeq, brands |-> <<"X", "Y">>, users |-> <<1>>]
InsFamily ==
    [states |-> <<"A", "B">>, years |-> YearSeq, counts |-> <<1>>, amounts |-> <<1, 2>>]
DistrictFamily ==
    [states |-> <<"A", "B">>, districts |-> <<"a", "b">>, years |-> YearSeq,
     counts |-> <<1>>, amounts |-> <<1>>]

TxnOne ==
    << [state |-> "A", year |-> 2022, txn_type |-> "P2P", txn_count |-> 1, txn_amount |-> 1] >>
InsSample == << [state |-> "A", year |-> 2022, ins_count |-> 1, ins_amount |-> 2] >>
MapInsSample ==
    << [state |-> "A", district |-> "a", year |-> 2022, ins_count |-> 1, ins_amount |-> 2] >>

(***************************************************************************)
(* SQL                                                                     *)
(***************************************************************************)
RECURSIVE ColSum(_, _)
ColSum(t, f) == IF t = <<>> THEN 0 ELSE t[1][f] + ColSum(Tail(t), f)

\* SUM(f) over the rows t of non-null values: NULL when there is no row
SqlSum(t, f) == IF t = <<>> THEN None ELSE Some(ColSum(t, f))

\* SUM(f) over rows whose f is nullable: nulls are skipped, NULL when no value is left
RECURSIVE OptColSum(_, _)
OptColSum(t, f) ==
    IF t = <<>> THEN 0
    ELSE (IF IsNone(t[1][f]) THEN 0 ELSE t[1][f][1]) + OptColSum(Tail(t), f)
SqlSumNullable(t, f) ==
    IF \A i \in 1..Len(t) : IsNone(t[i][f]) THEN None ELSE Some(OptColSum(t, f))

(***************************************************************************)
(* pandas / Streamlit helpers                                              *)
(***************************************************************************)
Min2(a, b) == IF a <= b THEN a ELSE b
Max2(a, b) == IF a >= b THEN a ELSE b

\* df.head(n), df.tail(n)
HeadN(df, n) == SubSeq(df, 1, Min2(n, Len(df)))
TailN(df, n) == SubSeq(df, Max2(1, Len(df) - n + 1), Len(df))

\* the distinct values without the sort, largest first
UniqueDescending(df, col) ==
    LET S == {df[i][col] : i \in 1..Len(df)}
    IN  CHOOSE s \in Orderings(S, {p \in S \X S : p[1] >= p[2]}) : TRUE

\* sorted(df[col].unique().tolist())
SortedUnique(df, col) ==
    LET S == {df[i][col] : i \in 1..Len(df)}
    IN  CHOOSE s \in Orderings(S, {p \in S \X S : p[1] <= p[2]}) : TRUE
SortedUniqueStates(df) ==
    LET S == {df[i].state : i \in 1..Len(df)}
    IN  CHOOSE s \in Orderings(S, {p \in S \X S : StateIdx(p[1]) <= StateIdx(p[2])}) : TRUE

\* st.selectbox(label, options, index): the option the user picked when it is
\* still offered, else options[index]; None when there is no option
Selectbox(options, index, picked) ==
    IF options = <<>> THEN None
    ELSE IF ~IsNone(picked) /\ picked[1] \in Range(options) THEN picked
    ELSE Some(options[IF index < 0 THEN Len(options) + 1 + index ELSE index + 1])

\* a filter that keeps the rows from v on
FilterFrom(df, col, v) == SelectSeq(df, LAMBDA r : ~IsNone(v) /\ r[col] >= v[1])

\* df[df[col] == v]: v is an option, None matches no row
FilterEq(df, col, v) == SelectSeq(df, LAMBDA r : ~IsNone(v) /\ r[col] = v[1])

\* df.sort_values(col, ascending=...): pandas sorts with kind="quicksort",
\* which is not stable, so rows with equal values may come in any order.
\* The result is the set of the frames the call may return.
SortValues(df, col, ascending) ==
    LET S == Range(df)
    IN  Orderings(S, {p \in S \X S :
                        IF ascending THEN p[1][col] <= p[2][col]
                                     ELSE p[1][col] >= p[2][col]})

\* the same for a float column: NaN rows are put last (na_position="last")
FLe(x, y) == x.k # "nan" /\ y.k # "nan" /\ ~FLt(y, x)
SortValuesF(df, col, ascending) ==
    LET S == Range(df)
    IN  Orderings(S, {p \in S \X S :
                        \/ p[2][col].k = "nan"
                        \/ IF ascending THEN FLe(p[1][col], p[2][col])
                                        ELSE FLe(p[2][col], p[1][col])})

(***************************************************************************)
(* Queries on aggregated_transaction                                       *)
(***************************************************************************)
\* a WHERE that forgets the year
TxnWhereNoYear(t, state, year) ==
    SelectSeq(t, LAMBDA r : state = "" \/ r.state = state)

\* the rows of t of a state and a year ("" and 0 match every state and year)
TxnWhere(t, state, year) ==
    SelectSeq(t, LAMBDA r : (state = "" \/ r.state = state) /\ (year = 0 \/ r.year = year))

\* GROUP BY year ORDER BY year (lines 115-123)
DfYearlyTxn(t) ==
    LET G == {[year |-> y,
               total_txn_count |-> ColSum(TxnWhere(t, "", y), "txn_count"),
               total_txn_amount |-> ColSum(TxnWhere(t, "", y), "txn_amount")] :
                 y \in {t[i].year : i \in 1..Len(t)}}
    IN  Orderings(G, {p \in G \X G : p[1].year <= p[2].year})

\* GROUP BY year, txn_type ORDER BY year, total_txn_amount DESC (lines 150-159)
DfTxnTypeTrend(t) ==
    LET G == {[year |-> k[1], txn_type |-> k[2],
               total_txn_count |->
                   ColSum(SelectSeq(t, LAMBDA r : r.year = k[1] /\ r.txn_type = k[2]), "txn_count"),
               total_txn_amount |->
                   ColSum(SelectSeq(t, LAMBDA r : r.year = k[1] /\ r.txn_type = k[2]), "txn_amount")] :
                 k \in {<<t[i].year, t[i].txn_type>> : i \in 1..Len(t)}}
    IN  Orderings(G, {p \in G \X G :
                        \/ p[1].year < p[2].year
                        \/ p[1].year = p[2].year /\ p[1].total_txn_amount >= p[2].total_txn_amount})

\* the groups of GROUP BY state, year
StateYearGroups(t) ==
    {[state |-> k[1], year |-> k[2],
      total_txn_count |-> ColSum(TxnWhere(t, k[1], k[2]), "txn_count"),
      total_txn_amount |-> ColSum(TxnWhere(t, k[1], k[2]), "txn_amount")] :
        k \in {<<t[i].state, t[i].year>> : i \in 1..Len(t)}}

\* ... ORDER BY year, total_txn_amount DESC (lines 178-187): the order of rows
\* the ORDER BY ties is not specified
DfStateYearTxn(t) ==
    LET G == StateYearGroups(t)
    IN  Orderings(G, {p \in G \X G :
                        \/ p[1].year < p[2].year
                        \/ p[1].year = p[2].year /\ p[1].total_txn_amount >= p[2].total_txn_amount})

\* ... ORDER BY state, year (lines 471-480)
DfStateYearMarket(t) ==
    LET G == StateYearGroups(t)
    IN  Orderings(G, {p \in G \X G :
                        \/ StateIdx(p[1].state) < StateIdx(p[2].state)
                        \/ p[1].state = p[2].state /\ p[1].year <= p[2].year})

\* GROUP BY state ORDER BY total_txn_amount DESC (lines 505-513)
DfMarket(t) ==
    LET G == {[state |-> s,
               total_txn_count |-> ColSum(TxnWhere(t, s, 0), "txn_count"),
               total_txn_amount |-> ColSum(TxnWhere(t, s, 0), "txn_amount")] :
                 s \in {t[i].state : i \in 1..Len(t)}}
    IN  Orderings(G, {p \in G \X G : p[1].total_txn_amount >= p[2].total_txn_amount})

(***************************************************************************)
(* Queries on aggregated_user                                              *)
(***************************************************************************)
\* GROUP BY state, year, device_brand with no ORDER BY (lines 242-250): the
\* rows come in an order the server chooses
DfStateBrand(u) ==
    LET G == {[state |-> k[1], year |-> k[2], brand |-> k[3],
               total_users |->
                   ColSum(SelectSeq(u, LAMBDA r : /\ r.state = k[1] /\ r.year = k[2]
                                                  /\ r.device_brand = k[3]),
                          "device_user_count")] :
                 k \in {<<u[i].state, u[i].year, u[i].device_brand>> : i \in 1..Len(u)}}
    IN  Orderings(G, G \X G)

\* the query without its HAVING clause
EngagementGroupsNoHaving(u) ==
    LET w == SelectSeq(u, LAMBDA r : /\ ~IsNone(r.total_registered_users)
                                     /\ ~IsNone(r.total_app_opens))
    IN  {[state |-> k[1], year |-> k[2],
          total_registered_users |->
              OptColSum(SelectSeq(w, LAMBDA r : r.state = k[1] /\ r.year = k[2]),
                        "total_registered_users"),
          total_app_opens |->
              OptColSum(SelectSeq(w, LAMBDA r : r.state = k[1] /\ r.year = k[2]),
                        "total_app_opens")] :
            k \in {<<w[i].state, w[i].year>> : i \in 1..Len(w)}}

\* WHERE both measures are not null GROUP BY state, year HAVING SUM(...) > 0,
\* with no ORDER BY (lines 281-292)
EngagementGroups(u) ==
    LET w == SelectSeq(u, LAMBDA r : /\ ~IsNone(r.total_registered_users)
                                     /\ ~IsNone(r.total_app_opens))
        G == {[state |-> k[1], year |-> k[2],
               total_registered_users |->
                   OptColSum(SelectSeq(w, LAMBDA r : r.state = k[1] /\ r.year = k[2]),
                             "total_registered_users"),
               total_app_opens |->
                   OptColSum(SelectSeq(w, LAMBDA r : r.state = k[1] /\ r.year = k[2]),
                             "total_app_opens")] :
                 k \in {<<w[i].state, w[i].year>> : i \in 1..Len(w)}}
    IN  {g \in G : g.total_registered_users > 0}

\* line 293: df["engagement_ratio"] = df["total_app_opens"] / df["total_registered_users"]
WithEngagementRatio(r) ==
    [state |-> r.state, year |-> r.year,
     total_registered_users |-> r.total_registered_users,
     total_app_opens |-> r.total_app_opens,
     engagement_ratio |-> FDiv(r.total_app_opens, r.total_registered_users)]

DfEngagement(u) ==
    LET G == {WithEngagementRatio(g) : g \in EngagementGroups(u)}
    IN  Orderings(G, G \X G)

(***************************************************************************)
(* Queries on aggregated_insurance and map_insurance                       *)
(***************************************************************************)
\* GROUP BY year ORDER BY year (lines 337-345)
DfInsYear(t) ==
    LET G == {[year |-> y,
               total_insurance_policies |->
                   ColSum(SelectSeq(t, LAMBDA r : r.year = y), "ins_count"),
               total_insurance_value |->
                   ColSum(SelectSeq(t, LAMBDA r : r.year = y), "ins_amount")] :
                 y \in {t[i].year : i \in 1..Len(t)}}
    IN  Orderings(G, {p \in G \X G : p[1].year <= p[2].year})

\* GROUP BY state, year ORDER BY total_insurance_value DESC (lines 378-387)
DfInsState(t) ==
    LET G == {[state |-> k[1], year |-> k[2],
               total_insurance_policies |->
                   ColSum(SelectSeq(t, LAMBDA r : r.state = k[1] /\ r.year = k[2]), "ins_count"),
               total_insurance_value |->
                   ColSum(SelectSeq(t, LAMBDA r : r.state = k[1] /\ r.year = k[2]), "ins_amount")] :
                 k \in {<<t[i].state, t[i].year>> : i \in 1..Len(t)}}
    IN  Orderings(G, {p \in G \X G : p[1].total_insurance_value >= p[2].total_insurance_value})

\* GROUP BY state, district, year with no ORDER BY (lines 420-429)
DfInsDist(m) ==
    LET G == {[state |-> k[1], district |-> k[2], year |-> k[3],
               total_insurance_policies |->
                   ColSum(SelectSeq(m, LAMBDA r : /\ r.state = k[1] /\ r.district = k[2]
                                                  /\ r.year = k[3]), "ins_count"),
               total_insurance_value |->
                   ColSum(SelectSeq(m, LAMBDA r : /\ r.state = k[1] /\ r.district = k[2]
                                                  /\ r.year = k[3]), "ins_amount")] :
                 k \in {<<m[i].state, m[i].district, m[i].year>> : i \in 1..Len(m)}}
    IN  Orderings(G, G \X G)

\* df.nlargest(n, col), df.nsmallest(n, col): keep="first", rows of equal value
\* stay in the order of df
NLargest(df, n, col) ==
    LET I == 1..Len(df)
        ord == CHOOSE s \in Orderings(I, {p \in I \X I :
                                            \/ df[p[1]][col] > df[p[2]][col]
                                            \/ df[p[1]][col] = df[p[2]][col] /\ p[1] <= p[2]}) :
                   TRUE
    IN  [i \in 1..Min2(n, Len(df)) |-> df[ord[i]]]
NSmallest(df, n, col) ==
    LET I == 1..Len(df)
        ord == CHOOSE s \in Orderings(I, {p \in I \X I :
                                            \/ df[p[1]][col] < df[p[2]][col]
                                            \/ df[p[1]][col] = df[p[2]][col] /\ p[1] <= p[2]}) :
                   TRUE
    IN  [i \in 1..Min2(n, Len(df)) |-> df[ord[i]]]

(***************************************************************************)
(* Derived columns of the market tab                                       *)
(***************************************************************************)
\* a pct_change that forgets to subtract 1
FSubOneMissing(x) == x

FSubOne(x) == IF IsNum(x) THEN Num(x.n - x.d, x.d) ELSE x
FTimes100(x) == IF IsNum(x) THEN Num(x.n * 100, x.d) ELSE x

\* a pct_change over the whole frame, without the groupby
PrevInFrame(df, i) == i - 1

\* the position of the row before row i in the group of groupby("state"), 0 if none
PrevInGroup(df, i) ==
    LET J == {j \in 1..(i - 1) : df[j].state = df[i].state}
    IN  IF J = {} THEN 0 ELSE SetMax(J)

\* df.groupby("state")[col].pct_change() * 100 (lines 483-484):
\* pct_change is x / x.shift(1) - 1 within the group
PctChange100(df, col) ==
    [i \in 1..Len(df) |->
        LET j == PrevInGroup(df, i)
        IN  IF j = 0 THEN NaN
            ELSE FTimes100(FSubOne(FDiv(df[i][col], df[j][col])))]

WithGrowth(df) ==
    [i \in 1..Len(df) |->
        [state |-> df[i].state, year |-> df[i].year,
         total_txn_count |-> df[i].total_txn_count,
         total_txn_amount |-> df[i].total_txn_amount,
         txn_growth_pct |-> PctChange100(df, "total_txn_count")[i],
         amount_growth_pct |-> PctChange100(df, "total_txn_amount")[i]]]

\* df["year"].max(): NaN (None here) on an empty frame
LatestYear(df) == IF df = <<>> THEN None ELSE Some(SetMax({df[i].year : i \in 1..Len(df)}))

\* df.dropna(subset=[col])
DropNa(df, col) == SelectSeq(df, LAMBDA r : r[col].k # "nan")

\* (df[col] - df[col].min()) / (df[col].max() - df[col].min()) (lines 545-549)
MinMaxNorm(df, col) ==
    [i \in 1..Len(df) |->
        LET C == {df[j][col] : j \in 1..Len(df)}
        IN  FDiv(df[i][col] - SetMin(C), SetMax(C) - SetMin(C))]

Half == Num(1, 2)

\* the lambda with strict comparisons against 0.5
CategoryStrict(row) ==
    IF FLt(Half, row.count_norm) /\ FLt(Half, row.amount_norm) THEN "High Count - High Value"
    ELSE IF FLt(Half, row.count_norm) /\ ~FLt(Half, row.amount_norm) THEN "High Count - Low Value"
    ELSE IF ~FLt(Half, row.count_norm) /\ FLt(Half, row.amount_norm) THEN "Low Count - High Value"
    ELSE "Low Count - Low Value"

\* the lambda of lines 552-556
Category(row) ==
    IF FGe(row.count_norm, Half) /\ FGe(row.amount_norm, Half) THEN "High Count - High Value"
    ELSE IF FGe(row.count_norm, Half) /\ FLt(row.amount_norm, Half) THEN "High Count - Low Value"
    ELSE IF FLt(row.count_norm, Half) /\ FGe(row.amount_norm, Half) THEN "Low Count - High Value"
    ELSE "Low Count - Low Value"

WithNorms(df) ==
    [i \in 1..Len(df) |->
        [state |-> df[i].state,
         total_txn_count |-> df[i].total_txn_count,
         total_txn_amount |-> df[i].total_txn_amount,
         count_norm |-> MinMaxNorm(df, "total_txn_count")[i],
         amount_norm |-> MinMaxNorm(df, "total_txn_amount")[i]]]

WithCategory(df) ==
    [i \in 1..Len(df) |->
        [state |-> df[i].state,
         total_txn_count |-> df[i].total_txn_count,
         total_txn_amount |-> df[i].total_txn_amount,
         count_norm |-> df[i].count_norm,
         amount_norm |-> df[i].amount_norm,
         category |-> Category(df[i])]]

VARIABLES
    aggregated_transaction,   \* table
    aggregated_user,          \* table
    aggregated_insurance,     \* table
    map_insurance,            \* table
    pc,                       \* position in the script
    error,                    \* the exception that ended the run, "" if none
    total_amount, total_count, total_users,        \* overview metrics (options)
    df_yearly_txn, df_txn_type_trend,
    df_state_year,            \* assigned in the transaction tab and again in the market tab
    years_available, sel_year_txn, df_year_filter,
    df_state_brand, years_device, sel_year_dev, states_device, sel_state_dev, df_year_state,
    df_engagement, years_eng, sel_year_eng, df_eng_y,
    df_ins_year, df_ins_state, years_ins, sel_year_ins, df_ins_year_sel,
    df_ins_dist, years_ins_dist, sel_year_ins_dist, df_ins_dist_year,
    latest_year, df_growth_latest, df_market,
    rendered,                 \* the element emitted last: [key, rows]
    session_state,            \* st.session_state: the value of each widget, by key
    cache                     \* st.cache_data of run_query: the frame each query returned

txn_frames == <<df_yearly_txn, df_txn_type_trend, years_available, sel_year_txn, df_year_filter>>
dev_frames == <<df_state_brand, years_device, sel_year_dev, states_device, sel_state_dev,
                df_year_state, df_engagement, years_eng, sel_year_eng, df_eng_y>>
ins_frames == <<df_ins_year, df_ins_state, years_ins, sel_year_ins, df_ins_year_sel,
                df_ins_dist, years_ins_dist, sel_year_ins_dist, df_ins_dist_year>>
mkt_frames == <<latest_year, df_growth_latest, df_market>>
frames == <<txn_frames, df_state_year, dev_frames, ins_frames, mkt_frames>>
tables == <<aggregated_transaction, aggregated_user, aggregated_insurance, map_insurance>>
metrics == <<total_amount, total_count, total_users>>
vars == <<tables, pc, error, metrics, frames, rendered, session_state, cache>>

Nothing == [key |-> "", rows |-> <<>>]

\* the keys of the six st.selectbox calls
WidgetKeys ==
    {"txn_state_year", "device_year", "device_state", "eng_year",
     "ins_state_year", "ins_dist_year"}

\* the queries whose rows may come in more than one order
CacheKeys ==
    {"txn_type_trend", "state_year", "state_brand", "engagement", "market",
     "ins_state", "ins_dist"}

\* run_query under st.cache_data (lines 20-23): the frame the query returned
\* the first time, whenever it is asked again; results are the frames the
\* database may return
RunQuery(key, results) == IF IsNone(cache[key]) THEN results ELSE {cache[key][1]}

\* the state of the script before its first statement, in a new session
Start ==
    /\ pc = "overview"
    /\ error = ""
    /\ total_amount = None /\ total_count = None /\ total_users = None
    /\ df_yearly_txn = <<>> /\ df_txn_type_trend = <<>> /\ df_state_year = <<>>
    /\ years_available = <<>> /\ sel_year_txn = None /\ df_year_filter = <<>>
    /\ df_state_brand = <<>> /\ years_device = <<>> /\ sel_year_dev = None
    /\ states_device = <<>> /\ sel_state_dev = None /\ df_year_state = <<>>
    /\ df_engagement = <<>> /\ years_eng = <<>> /\ sel_year_eng = None /\ df_eng_y = <<>>
    /\ df_ins_year = <<>> /\ df_ins_state = <<>> /\ years_ins = <<>>
    /\ sel_year_ins = None /\ df_ins_year_sel = <<>>
    /\ df_ins_dist = <<>> /\ years_ins_dist = <<>>
    /\ sel_year_ins_dist = None /\ df_ins_dist_year = <<>>
    /\ latest_year = None /\ df_growth_latest = <<>> /\ df_market = <<>>
    /\ rendered = Nothing
    /\ session_state = [k \in WidgetKeys |-> None]
    /\ cache = [k \in CacheKeys |-> None]

InitGrowth ==
    /\ aggregated_transaction \in TxnTables(GrowthFamily)
    /\ aggregated_user = UserSample
    /\ aggregated_insurance = InsSample
    /\ map_insurance = MapInsSample
    /\ Start
InitMarket ==
    /\ aggregated_transaction \in TxnTables(MarketFamily)
    /\ aggregated_user = UserSample
    /\ aggregated_insurance = InsSample
    /\ map_insurance = MapInsSample
    /\ Start
InitTypes ==
    /\ aggregated_transaction \in TxnTables(TypeFamily)
    /\ aggregated_user = UserSample
    /\ aggregated_insurance = InsSample
    /\ map_insurance = MapInsSample
    /\ Start
InitUsers ==
    /\ aggregated_transaction = TxnSample
    /\ aggregated_user \in UserTables
    /\ aggregated_insurance = InsSample
    /\ map_insurance = MapInsSample
    /\ Start
InitInsurance ==
    /\ aggregated_transaction = TxnOne
    /\ aggregated_user = UserSample
    /\ aggregated_insurance \in InsTables(InsFamily)
    /\ map_insurance = MapInsSample
    /\ Start
InitDistricts ==
    /\ aggregated_transaction = TxnOne
    /\ aggregated_user = UserSample
    /\ aggregated_insurance = InsSample
    /\ map_insurance \in MapInsTables(DistrictFamily)
    /\ Start
InitSessionTxn ==
    /\ aggregated_transaction \in TxnTables(SessionFamily)
    /\ aggregated_user = UserSample
    /\ aggregated_insurance = InsSample
    /\ map_insurance = MapInsSample
    /\ Start
InitSessionUsers ==
    /\ aggregated_transaction = TxnOne
    /\ aggregated_user \in BrandTables(BrandFamily)
    /\ aggregated_insurance = InsSample
    /\ map_insurance = MapInsSample
    /\ Start
Init ==
    \/ InitGrowth \/ InitMarket \/ InitTypes \/ InitUsers
    \/ InitInsurance \/ InitDistricts \/ InitSessionTxn \/ InitSessionUsers
InitSession == InitSessionTxn \/ InitSessionUsers \/ InitInsurance \/ InitDistricts

(***************************************************************************)
(* Overview tab, lines 56-102                                              *)
(***************************************************************************)
\* df_txn_summary: one row whatever the table holds
DfTxnSummary(t) ==
    << [total_amount |-> SqlSum(t, "txn_amount"), total_count |-> SqlSum(t, "txn_count")] >>

\* df_users_summary: WHERE total_registered_users IS NOT NULL
DfUsersSummary(u) ==
    << [total_users |->
          SqlSumNullable(SelectSeq(u, LAMBDA r : ~IsNone(r.total_registered_users)),
                         "total_registered_users")] >>

\* x = df[col].iloc[0] if not df.empty else 0
FirstOrZero(df, col) == IF df # <<>> THEN df[1][col] ELSE Some(0)

\* f"{x:,.0f}" raises TypeError when x is None
FormatFails(x) == IsNone(x)

Overview ==
    /\ pc = "overview"
    /\ LET ta == FirstOrZero(DfTxnSummary(aggregated_transaction), "total_amount")
           tc == FirstOrZero(DfTxnSummary(aggregated_transaction), "total_count")
           tu == FirstOrZero(DfUsersSummary(aggregated_user), "total_users")
       IN  /\ total_amount' = ta
           /\ total_count' = tc
           /\ total_users' = tu
           /\ IF FormatFails(ta) \/ FormatFails(tc) \/ FormatFails(tu)
              THEN /\ pc' = "error"
                   /\ error' = "TypeError"
                   /\ rendered' = rendered
              ELSE /\ pc' = "txn"
                   /\ error' = error
                   /\ rendered' = [key |-> "metrics", rows |-> <<ta, tc, tu>>]
    /\ UNCHANGED <<tables, frames, session_state, cache>>

(***************************************************************************)
(* Transaction tab, lines 109-202                                          *)
(***************************************************************************)
TOP_STATES == 15
TOP_N == 10

\* lines 115-192: the three queries, the year selector, the filter
TxnQueries ==
    /\ pc = "txn"
    /\ df_yearly_txn' \in DfYearlyTxn(aggregated_transaction)
    /\ df_txn_type_trend' \in RunQuery("txn_type_trend", DfTxnTypeTrend(aggregated_transaction))
    /\ df_state_year' \in RunQuery("state_year", DfStateYearTxn(aggregated_transaction))
    /\ cache' = [cache EXCEPT !["txn_type_trend"] = Some(df_txn_type_trend'),
                              !["state_year"] = Some(df_state_year')]
    /\ years_available' = SortedUnique(df_state_year', "year")
    /\ sel_year_txn' = Selectbox(years_available', Len(years_available') - 1,
                                 session_state["txn_state_year"])
    /\ session_state' = [session_state EXCEPT !["txn_state_year"] = sel_year_txn']
    /\ df_year_filter' = FilterEq(df_state_year', "year", sel_year_txn')
    /\ rendered' = [key |-> "txn_type_line", rows |-> df_txn_type_trend']
    /\ pc' = "txn_state_bar"
    /\ UNCHANGED <<tables, error, metrics, dev_frames, ins_frames, mkt_frames>>

\* lines 194-202
TxnStateBar ==
    /\ pc = "txn_state_bar"
    /\ \E sorted \in SortValues(df_year_filter, "total_txn_amount", FALSE) :
          rendered' = [key |-> "txn_state_bar", rows |-> HeadN(sorted, TOP_STATES)]
    /\ pc' = "device"
    /\ UNCHANGED <<tables, error, metrics, frames, session_state, cache>>

(***************************************************************************)
(* Device tab, lines 209-324                                               *)
(***************************************************************************)
\* df[(df["year"] == y) & (df["state"] == s)]: y and s are options
FilterYearState(df, y, s) ==
    SelectSeq(df, LAMBDA r : /\ ~IsNone(y) /\ r.year = y[1]
                             /\ ~IsNone(s) /\ r.state = s[1])

\* lines 242-274: the brand query, the two selectors, the filter, the chart or
\* the "no data" note
DeviceStateBrand ==
    /\ pc = "device"
    /\ df_state_brand' \in RunQuery("state_brand", DfStateBrand(aggregated_user))
    /\ cache' = [cache EXCEPT !["state_brand"] = Some(df_state_brand')]
    /\ years_device' = SortedUnique(df_state_brand', "year")
    /\ sel_year_dev' = Selectbox(years_device', Len(years_device') - 1,
                                 session_state["device_year"])
    /\ states_device' = SortedUniqueStates(df_state_brand')
    /\ sel_state_dev' = Selectbox(states_device', 0, session_state["device_state"])
    /\ session_state' = [session_state EXCEPT !["device_year"] = sel_year_dev',
                                              !["device_state"] = sel_state_dev']
    /\ df_year_state' = FilterYearState(df_state_brand', sel_year_dev', sel_state_dev')
    /\ IF df_year_state' = <<>>
       THEN rendered' = [key |-> "info", rows |-> <<"No data for this state/year combination.">>]
       ELSE \E sorted \in SortValues(df_year_state', "total_users", FALSE) :
               rendered' = [key |-> "device_state_brand", rows |-> sorted]
    /\ pc' = "engagement"
    /\ UNCHANGED <<tables, error, metrics, txn_frames, df_state_year,
                   df_engagement, years_eng, sel_year_eng, df_eng_y, ins_frames, mkt_frames>>

\* lines 281-298: the engagement query, the ratio column, the year selector,
\* the filter.  The cached frame is kept with the ratio column, which line 293
\* adds to every copy of it.
DeviceEngagement ==
    /\ pc = "engagement"
    /\ df_engagement' \in RunQuery("engagement", DfEngagement(aggregated_user))
    /\ cache' = [cache EXCEPT !["engagement"] = Some(df_engagement')]
    /\ years_eng' = SortedUnique(df_engagement', "year")
    /\ sel_year_eng' = Selectbox(years_eng', Len(years_eng') - 1, session_state["eng_year"])
    /\ session_state' = [session_state EXCEPT !["eng_year"] = sel_year_eng']
    /\ df_eng_y' = FilterEq(df_engagement', "year", sel_year_eng')
    /\ pc' = "eng_top"
    /\ UNCHANGED <<tables, error, metrics, txn_frames, df_state_year,
                   df_state_brand, years_device, sel_year_dev, states_device,
                   sel_state_dev, df_year_state, ins_frames, mkt_frames, rendered>>

\* lines 302-312
EngTop ==
    /\ pc = "eng_top"
    /\ \E sorted \in SortValuesF(df_eng_y, "engagement_ratio", FALSE) :
          rendered' = [key |-> "eng_top", rows |-> HeadN(sorted, TOP_N)]
    /\ pc' = "eng_low"
    /\ UNCHANGED <<tables, error, metrics, frames, session_state, cache>>

\* lines 314-324
EngLow ==
    /\ pc = "eng_low"
    /\ \E sorted \in SortValuesF(df_eng_y, "engagement_ratio", TRUE) :
          rendered' = [key |-> "eng_low", rows |-> HeadN(sorted, TOP_N)]
    /\ pc' = "ins_states"
    /\ UNCHANGED <<tables, error, metrics, frames, session_state, cache>>

(***************************************************************************)
(* Insurance tab, lines 331-460                                            *)
(***************************************************************************)
\* lines 337-412: the yearly trend, the state query, the year selector, the
\* filter, the top and bottom charts (emitted side by side)
InsuranceStates ==
    /\ pc = "ins_states"
    /\ df_ins_year' \in DfInsYear(aggregated_insurance)
    /\ df_ins_state' \in RunQuery("ins_state", DfInsState(aggregated_insurance))
    /\ cache' = [cache EXCEPT !["ins_state"] = Some(df_ins_state')]
    /\ years_ins' = SortedUnique(df_ins_state', "year")
    /\ sel_year_ins' = Selectbox(years_ins', Len(years_ins') - 1, session_state["ins_state_year"])
    /\ session_state' = [session_state EXCEPT !["ins_state_year"] = sel_year_ins']
    /\ df_ins_year_sel' = FilterEq(df_ins_state', "year", sel_year_ins')
    /\ rendered' = [key |-> "ins_states",
                    rows |-> << NLargest(df_ins_year_sel', TOP_N, "total_insurance_value"),
                                NSmallest(df_ins_year_sel', TOP_N, "total_insurance_value") >>]
    /\ pc' = "ins_districts"
    /\ UNCHANGED <<tables, error, metrics, txn_frames, df_state_year, dev_frames,
                   df_ins_dist, years_ins_dist, sel_year_ins_dist, df_ins_dist_year,
                   mkt_frames>>

\* lines 418-460: the district query, the year selector, the filter, the top
\* and bottom charts
InsuranceDistricts ==
    /\ pc = "ins_districts"
    /\ df_ins_dist' \in RunQuery("ins_dist", DfInsDist(map_insurance))
    /\ cache' = [cache EXCEPT !["ins_dist"] = Some(df_ins_dist')]
    /\ years_ins_dist' = SortedUnique(df_ins_dist', "year")
    /\ sel_year_ins_dist' = Selectbox(years_ins_dist', Len(years_ins_dist') - 1,
                                      session_state["ins_dist_year"])
    /\ session_state' = [session_state EXCEPT !["ins_dist_year"] = sel_year_ins_dist']
    /\ df_ins_dist_year' = FilterEq(df_ins_dist', "year", sel_year_ins_dist')
    /\ rendered' = [key |-> "ins_districts",
                    rows |-> << NLargest(df_ins_dist_year', TOP_N, "total_insurance_value"),
                                NSmallest(df_ins_dist_year', TOP_N, "total_insurance_value") >>]
    /\ pc' = "market"
    /\ UNCHANGED <<tables, error, metrics, txn_frames, df_state_year, dev_frames,
                   df_ins_year, df_ins_state, years_ins, sel_year_ins, df_ins_year_sel,
                   mkt_frames>>

(***************************************************************************)
(* Market tab, lines 467-572                                               *)
(***************************************************************************)
\* lines 471-498
MarketGrowth ==
    /\ pc = "market"
    /\ \E q \in DfStateYearMarket(aggregated_transaction) :
          df_state_year' = WithGrowth(q)
    /\ latest_year' = LatestYear(df_state_year')
    /\ df_growth_latest' = DropNa(FilterEq(df_state_year', "year", latest_year'), "txn_growth_pct")
    /\ \E sorted \in SortValuesF(df_growth_latest', "txn_growth_pct", FALSE) :
          rendered' = [key |-> "market_growth", rows |-> HeadN(sorted, TOP_N)]
    /\ pc' = "market_size"
    /\ UNCHANGED <<tables, error, metrics, txn_frames, dev_frames, ins_frames, df_market,
                   session_state, cache>>

\* lines 505-526
MarketSize ==
    /\ pc = "market_size"
    /\ df_market' \in RunQuery("market", DfMarket(aggregated_transaction))
    /\ cache' = [cache EXCEPT !["market"] = Some(df_market')]
    /\ rendered' = [key |-> "market_top", rows |-> HeadN(df_market', TOP_N)]
    /\ pc' = "market_bottom"
    /\ UNCHANGED <<tables, error, metrics, txn_frames, df_state_year, dev_frames, ins_frames,
                   latest_year, df_growth_latest, session_state>>

\* lines 528-537
MarketBottom ==
    /\ pc = "market_bottom"
    /\ \E sorted \in SortValues(TailN(df_market, TOP_N), "total_txn_amount", TRUE) :
          rendered' = [key |-> "market_bottom", rows |-> sorted]
    /\ pc' = "matrix"
    /\ UNCHANGED <<tables, error, metrics, frames, session_state, cache>>

\* lines 544-572
MarketMatrix ==
    /\ pc = "matrix"
    /\ df_market' = WithCategory(WithNorms(df_market))
    /\ rendered' = [key |-> "market_matrix", rows |-> df_market']
    /\ pc' = "done"
    /\ UNCHANGED <<tables, error, metrics, txn_frames, df_state_year, dev_frames, ins_frames,
                   latest_year, df_growth_latest, session_state, cache>>

(***************************************************************************)
(* The user's selections                                                   *)
(***************************************************************************)
\* the options and the value of the select box of a key, as the run drew it
\* (<<>> and None before the run reaches it)
Offered(key) ==
    CASE key = "txn_state_year" -> years_available
      [] key = "device_year" -> years_device
      [] key = "device_state" -> states_device
      [] key = "eng_year" -> years_eng
      [] key = "ins_state_year" -> years_ins
      [] key = "ins_dist_year" -> years_ins_dist
Selected(key) ==
    CASE key = "txn_state_year" -> sel_year_txn
      [] key = "device_year" -> sel_year_dev
      [] key = "device_state" -> sel_state_dev
      [] key = "eng_year" -> sel_year_eng
      [] key = "ins_state_year" -> sel_year_ins
      [] key = "ins_dist_year" -> sel_year_ins_dist

\* The user picks another option of a select box the run has drawn (lines 190,
\* 253, 256, 296, 390, 433).  Streamlit stores the option under the widget's
\* key and runs the script again from its first line: the script's variables
\* start afresh, the session state and the query cache are kept.
Pick ==
    /\ \E key \in WidgetKeys :
          \E v \in Range(Offered(key)) :
              /\ Some(v) # Selected(key)
              /\ session_state' = [session_state EXCEPT ![key] = Some(v)]
    /\ pc' = "overview"
    /\ error' = ""
    /\ total_amount' = None /\ total_count' = None /\ total_users' = None
    /\ df_yearly_txn' = <<>> /\ df_txn_type_trend' = <<>> /\ df_state_year' = <<>>
    /\ years_available' = <<>> /\ sel_year_txn' = None /\ df_year_filter' = <<>>
    /\ df_state_brand' = <<>> /\ years_device' = <<>> /\ sel_year_dev' = None
    /\ states_device' = <<>> /\ sel_state_dev' = None /\ df_year_state' = <<>>
    /\ df_engagement' = <<>> /\ years_eng' = <<>> /\ sel_year_eng' = None /\ df_eng_y' = <<>>
    /\ df_ins_year' = <<>> /\ df_ins_state' = <<>> /\ years_ins' = <<>>
    /\ sel_year_ins' = None /\ df_ins_year_sel' = <<>>
    /\ df_ins_dist' = <<>> /\ years_ins_dist' = <<>>
    /\ sel_year_ins_dist' = None /\ df_ins_dist_year' = <<>>
    /\ latest_year' = None /\ df_growth_latest' = <<>> /\ df_market' = <<>>
    /\ rendered' = Nothing
    /\ UNCHANGED <<tables, cache>>

\* one run of the script, from its first line to its last
Next ==
    \/ Overview
    \/ TxnQueries
    \/ TxnStateBar
    \/ DeviceStateBrand
    \/ DeviceEngagement
    \/ EngTop
    \/ EngLow
    \/ InsuranceStates
    \/ InsuranceDistricts
    \/ MarketGrowth
    \/ MarketSize
    \/ MarketBottom
    \/ MarketMatrix

\* a session: runs of the script, and the user's selections between and during them
Session == Next \/ Pick

Spec == Init /\ [][Next]_vars
SpecGrowth == InitGrowth /\ [][Next]_vars
SpecTotals == (InitGrowth \/ InitTypes) /\ [][Next]_vars
SpecMarket == InitMarket /\ [][Next]_vars
SpecUsers == InitUsers /\ [][Next]_vars
SpecSession == InitSession /\ [][Session]_vars

(***************************************************************************)
(* Positions of the script                                                 *)
(***************************************************************************)
AfterTxnQueries == pc \notin {"overview", "txn", "error"}
AfterEngagement == pc \in {"eng_top", "eng_low", "ins_states", "ins_districts", "market",
                           "market_size", "market_bottom", "matrix", "done"}
AfterGrowth == pc \in {"market_size", "market_bottom", "matrix", "done"}
AfterMarketQuery == pc \in {"market_bottom", "matrix", "done"}

(***************************************************************************)
(* C1.  Conservation of totals: the sum of total_txn_amount, and of        *)
(* total_txn_count, over the rows of each grouped result (by year, by      *)
(* (year, txn_type), by (state, year), by state) equals the total the      *)
(* overview query computed over the same table.                            *)
(***************************************************************************)
Conserves(df) ==
    /\ Some(ColSum(df, "total_txn_amount")) = total_amount
    /\ Some(ColSum(df, "total_txn_count")) = total_count

ConservationOfTotals ==
    /\ AfterTxnQueries =>
          /\ Conserves(df_yearly_txn)
          /\ Conserves(df_txn_type_trend)
          /\ Conserves(df_state_year)
    /\ AfterMarketQuery => Conserves(df_market)

\* grouped results with several groups, a group that sums several raw rows
ConservationWitness ==
    /\ pc = "done"
    /\ Len(df_market) >= 2
    /\ Len(df_state_year) >= 2
    /\ Len(aggregated_transaction) > Len(df_state_year)
    /\ total_amount # Some(0)

(***************************************************************************)
(* C2.  Growth zero-base: a row whose previous period (the row of the same *)
(* state with the nearest earlier year) has value 0 has an undefined (NaN) *)
(* growth, for txn_growth_pct and for amount_growth_pct.                   *)
(***************************************************************************)
\* the position in df of the row of the period before row i of the same state,
\* found by state and year; 0 if row i is the first period of its state
PreviousPeriod(df, i) ==
    LET E == {j \in 1..Len(df) : df[j].state = df[i].state /\ df[j].year < df[i].year}
    IN  IF E = {} THEN 0
        ELSE CHOOSE j \in E : \A e \in E : df[e].year <= df[j].year

GrowthZeroBaseUndefined ==
    AfterGrowth =>
        \A i \in 1..Len(df_state_year) :
            LET j == PreviousPeriod(df_state_year, i)
            IN  j # 0 =>
                  /\ df_state_year[j].total_txn_count = 0
                        => df_state_year[i].txn_growth_pct = NaN
                  /\ df_state_year[j].total_txn_amount = 0
                        => df_state_year[i].amount_growth_pct = NaN

(***************************************************************************)
(* C3.  Normalization range: every count_norm and amount_norm is a number  *)
(* in [0, 1]; a row holding the maximum of the field scores 1, a row       *)
(* holding the minimum scores 0; when the maximum equals the minimum every *)
(* score is 0.                                                             *)
(***************************************************************************)
NormOk(df, col, norm) ==
    LET C == {df[j][col] : j \in 1..Len(df)}
    IN  \A i \in 1..Len(df) :
            LET x == df[i][norm]
            IN  /\ IsNum(x)
                /\ 0 <= x.n /\ x.n <= x.d
                /\ df[i][col] = SetMin(C) => x.n = 0
                /\ (df[i][col] = SetMax(C) /\ SetMax(C) # SetMin(C)) => x.n = x.d

NormalizationRange ==
    pc = "done" =>
        /\ NormOk(df_market, "total_txn_count", "count_norm")
        /\ NormOk(df_market, "total_txn_amount", "amount_norm")

(***************************************************************************)
(* C4.  Ratio on a zero denominator.  As claimed: a (state, year) group    *)
(* whose summed total_registered_users is 0 has a row whose                *)
(* engagement_ratio is undefined.                                          *)
(***************************************************************************)
\* the rows the query's WHERE keeps, and the (state, year) groups among them
\* whose total_registered_users sum to 0
NonNullUsers ==
    SelectSeq(aggregated_user, LAMBDA r : /\ ~IsNone(r.total_registered_users)
                                          /\ ~IsNone(r.total_app_opens))
ZeroUserGroups ==
    {k \in {<<NonNullUsers[i].state, NonNullUsers[i].year>> : i \in 1..Len(NonNullUsers)} :
        \A i \in 1..Len(NonNullUsers) :
            (NonNullUsers[i].state = k[1] /\ NonNullUsers[i].year = k[2])
                => NonNullUsers[i].total_registered_users = Some(0)}

RatioUndefinedOnZeroUsers ==
    AfterEngagement =>
        \A k \in ZeroUserGroups :
            \E i \in 1..Len(df_engagement) :
                /\ df_engagement[i].state = k[1] /\ df_engagement[i].year = k[2]
                /\ df_engagement[i].engagement_ratio = NaN

(***************************************************************************)
(* C4, amended.  A (state, year) group whose summed total_registered_users *)
(* is 0 has no row in df_engagement, so no ratio is computed for it; every *)
(* row of df_engagement has total_registered_users > 0 and a finite        *)
(* engagement_ratio equal to total_app_opens / total_registered_users.     *)
(***************************************************************************)
ZeroUsersGroupHasNoRow ==
    AfterEngagement =>
        /\ \A k \in ZeroUserGroups :
               \A i \in 1..Len(df_engagement) :
                   ~(df_engagement[i].state = k[1] /\ df_engagement[i].year = k[2])
        /\ \A i \in 1..Len(df_engagement) :
               LET r == df_engagement[i]
               IN  /\ r.total_registered_users > 0
                   /\ IsNum(r.engagement_ratio)
                   /\ r.engagement_ratio.n * r.total_registered_users
                          = r.total_app_opens * r.engagement_ratio.d

\* a group of zero users beside a group that has a row
ZeroUsersWitness ==
    /\ AfterEngagement
    /\ ZeroUserGroups # {}
    /\ df_engagement # <<>>

(***************************************************************************)
(* C5.  Empty input handling: when a table is empty, or a filter keeps no  *)
(* row, no step of the script fails.                                       *)
(***************************************************************************)
EmptyInputHandled ==
    (aggregated_transaction = <<>> \/ aggregated_user = <<>>) => pc # "error"

(***************************************************************************)
(* C6.  Undefined values are excluded from ranking: every row of the       *)
(* "Top 10 Fastest Growing States" chart has a defined, finite             *)
(* txn_growth_pct.                                                         *)
(***************************************************************************)
RankedGrowthIsFinite ==
    rendered.key = "market_growth" =>
        \A i \in 1..Len(rendered.rows) : IsNum(rendered.rows[i].txn_growth_pct)

(***************************************************************************)
(* C7.  Rank stability and bounds: a top-n / bottom-n result has at most n *)
(* rows, all of them rows of the input, ordered by the ranking field in    *)
(* the requested direction, no omitted row is better than a row kept, and  *)
(* rows with equal ranking values come in their order in the input.        *)
(***************************************************************************)
AsFloat(row, col, isFloat) == IF isFloat THEN row[col] ELSE Num(row[col], 1)
FEq(x, y) == x.k = y.k /\ (x.k = "num" => x.n * y.d = y.n * x.d)
Better(x, y, ascending) == IF ascending THEN FLt(x, y) ELSE FLt(y, x)
IndexIn(df, r) == CHOOSE i \in 1..Len(df) : df[i] = r

RankOk(out, in, n, col, isFloat, ascending) ==
    /\ Len(out) = Min2(n, Len(in))
    /\ Range(out) \subseteq Range(in)
    /\ \A p, q \in 1..Len(out) :
           p < q =>
              \/ Better(AsFloat(out[p], col, isFloat), AsFloat(out[q], col, isFloat), ascending)
              \/ /\ FEq(AsFloat(out[p], col, isFloat), AsFloat(out[q], col, isFloat))
                 /\ IndexIn(in, out[p]) < IndexIn(in, out[q])
    /\ \A r \in Range(in) \ Range(out) :
           \A p \in 1..Len(out) :
               ~Better(AsFloat(r, col, isFloat), AsFloat(out[p], col, isFloat), ascending)

RankStableAndBounded ==
    /\ rendered.key = "txn_state_bar" =>
          RankOk(rendered.rows, df_year_filter, TOP_STATES, "total_txn_amount", FALSE, FALSE)
    /\ rendered.key = "eng_top" =>
          RankOk(rendered.rows, df_eng_y, TOP_N, "engagement_ratio", TRUE, FALSE)
    /\ rendered.key = "eng_low" =>
          RankOk(rendered.rows, df_eng_y, TOP_N, "engagement_ratio", TRUE, TRUE)
    /\ rendered.key = "market_growth" =>
          RankOk(rendered.rows, df_growth_latest, TOP_N, "txn_growth_pct", TRUE, FALSE)
    /\ rendered.key = "market_top" =>
          RankOk(rendered.rows, df_market, TOP_N, "total_txn_amount", FALSE, FALSE)
    /\ rendered.key = "market_bottom" =>
          RankOk(rendered.rows, TailN(df_market, TOP_N), TOP_N, "total_txn_amount", FALSE, TRUE)

(***************************************************************************)
(* C8.  Growth formula and partitioning: for a row that is not the first   *)
(* period of its state, txn_growth_pct is (current - previous) / previous  *)
(* * 100, previous being the total_txn_count of the same state's row of    *)
(* the nearest earlier year (the division being the floating-point one:    *)
(* x/0 is inf for x > 0 and NaN for x = 0).                                *)
(***************************************************************************)
GrowthOf(current, previous) == FTimes100(FDiv(current - previous, previous))

GrowthFormula ==
    AfterGrowth =>
        \A i \in 1..Len(df_state_year) :
            LET j == PreviousPeriod(df_state_year, i)
            IN  j # 0 =>
                  /\ df_state_year[j].state = df_state_year[i].state
                  /\ FEq(df_state_year[i].txn_growth_pct,
                         GrowthOf(df_state_year[i].total_txn_count,
                                  df_state_year[j].total_txn_count))

\* a state that goes from 1 to 2, a growth of 100 per cent, in a frame whose
\* first rows are another state's, with another count
GrowthFormulaWitness ==
    /\ AfterGrowth
    /\ \E i \in 2..Len(df_state_year) :
          /\ PreviousPeriod(df_state_year, i) # 0
          /\ df_state_year[i].total_txn_count = 2
          /\ FEq(df_state_year[i].txn_growth_pct, Num(100, 1))
          /\ df_state_year[1].state # df_state_year[i].state
          /\ df_state_year[1].total_txn_count = 2

(***************************************************************************)
(* C9.  Growth first-period: the row of the earliest year of every state   *)
(* has an undefined txn_growth_pct and an undefined amount_growth_pct.     *)
(***************************************************************************)
GrowthFirstPeriodUndefined ==
    AfterGrowth =>
        \A i \in 1..Len(df_state_year) :
            PreviousPeriod(df_state_year, i) = 0 =>
                /\ df_state_year[i].txn_growth_pct = NaN
                /\ df_state_year[i].amount_growth_pct = NaN

\* the first period of a state whose row follows a row of another state with
\* non-zero measures
GrowthFirstPeriodWitness ==
    /\ AfterGrowth
    /\ \E i \in 2..Len(df_state_year) :
          /\ PreviousPeriod(df_state_year, i) = 0
          /\ df_state_year[i - 1].state # df_state_year[i].state
          /\ df_state_year[i - 1].total_txn_count > 0
          /\ df_state_year[i - 1].total_txn_amount > 0
          /\ df_state_year[i].total_txn_count > 0

(***************************************************************************)
(* C10.  Quadrant categorization: every market row has exactly one of the  *)
(* four labels, fixed by its two scores against 0.5: High-High when both   *)
(* are >= 0.5, High-Low when count_norm >= 0.5 and amount_norm < 0.5,      *)
(* Low-High when count_norm < 0.5 and amount_norm >= 0.5, Low-Low          *)
(* otherwise; a score of exactly 0.5 is High.                              *)
(***************************************************************************)
AtLeastHalf(x) == x.k = "inf" \/ (x.k = "num" /\ 2 * x.n >= x.d)
BelowHalf(x) == x.k = "num" /\ 2 * x.n < x.d

QuadrantRule ==
    pc = "done" =>
        \A i \in 1..Len(df_market) :
            LET r == df_market[i]
                hh == AtLeastHalf(r.count_norm) /\ AtLeastHalf(r.amount_norm)
                hl == AtLeastHalf(r.count_norm) /\ BelowHalf(r.amount_norm)
                lh == BelowHalf(r.count_norm) /\ AtLeastHalf(r.amount_norm)
            IN  /\ r.category \in {"High Count - High Value", "High Count - Low Value",
                                   "Low Count - High Value", "Low Count - Low Value"}
                /\ (r.category = "High Count - High Value") <=> hh
                /\ (r.category = "High Count - Low Value") <=> hl
                /\ (r.category = "Low Count - High Value") <=> lh
                /\ (r.category = "Low Count - Low Value") <=> ~(hh \/ hl \/ lh)

\* a row whose count_norm is exactly 0.5 and is labelled High Count, beside
\* rows of other labels
QuadrantWitness ==
    /\ pc = "done"
    /\ \E i \in 1..Len(df_market) :
          /\ IsNum(df_market[i].count_norm)
          /\ 2 * df_market[i].count_norm.n = df_market[i].count_norm.d
          /\ BelowHalf(df_market[i].amount_norm)
          /\ df_market[i].category = "High Count - Low Value"
    /\ \E i \in 1..Len(df_market) : df_market[i].category = "Low Count - High Value"

(***************************************************************************)
(* C11.  Null measures contribute 0 to a sum: each summed measure of each  *)
(* group of the engagement result equals the sum of the non-null values of *)
(* that measure over all rows of aggregated_user of the group (a null in   *)
(* one measure does not remove the row's other measure from its sum), and  *)
(* the total of registered users is never null, even when every value is.  *)
(***************************************************************************)
RawGroup(s, y) == SelectSeq(aggregated_user, LAMBDA r : r.state = s /\ r.year = y)

NullsContributeZero ==
    /\ AfterEngagement =>
          \A i \in 1..Len(df_engagement) :
              LET g == RawGroup(df_engagement[i].state, df_engagement[i].year)
              IN  /\ df_engagement[i].total_registered_users
                        = OptColSum(g, "total_registered_users")
                  /\ df_engagement[i].total_app_opens = OptColSum(g, "total_app_opens")
    /\ pc # "overview" => ~IsNone(total_users)

(***************************************************************************)
(* C12.  Filtering changes only row membership: each filtered frame holds  *)
(* exactly the rows of its grouped result whose year (and state) is the    *)
(* selected one, each row as it is in the grouped result and in the same   *)
(* order; the grouped result is still what the query returned; and the     *)
(* first bar of the state chart is a row of the largest amount among the   *)
(* filtered rows.                                                          *)
(***************************************************************************)
\* filtered holds the rows of df that Keep accepts, once each, in df's order
ExactlyTheRows(filtered, df, Keep(_)) ==
    /\ Range(filtered) = {r \in Range(df) : Keep(r)}
    /\ Len(filtered) = Cardinality({i \in 1..Len(df) : Keep(df[i])})
    /\ \A i, j \in 1..Len(filtered) :
          i < j => \E a, b \in 1..Len(df) : a < b /\ df[a] = filtered[i] /\ df[b] = filtered[j]

\* df_state_year holds the transaction tab's result up to the market tab's query
BeforeMarketQuery == AfterTxnQueries /\ ~AfterGrowth
AfterDeviceQuery == pc \notin {"overview", "txn", "txn_state_bar", "device", "error"}

FilterOnlyChangesMembership ==
    /\ BeforeMarketQuery =>
          /\ ExactlyTheRows(df_year_filter, df_state_year,
                            LAMBDA r : Some(r.year) = sel_year_txn)
          /\ Range(df_state_year) = StateYearGroups(aggregated_transaction)
          /\ Len(df_state_year) = Cardinality(StateYearGroups(aggregated_transaction))
          /\ cache["state_year"] = Some(df_state_year)
    /\ ExactlyTheRows(df_year_state, df_state_brand,
                      LAMBDA r : Some(r.year) = sel_year_dev /\ Some(r.state) = sel_state_dev)
    /\ AfterDeviceQuery => cache["state_brand"] = Some(df_state_brand)
    /\ ExactlyTheRows(df_eng_y, df_engagement, LAMBDA r : Some(r.year) = sel_year_eng)
    /\ ExactlyTheRows(df_ins_year_sel, df_ins_state, LAMBDA r : Some(r.year) = sel_year_ins)
    /\ ExactlyTheRows(df_ins_dist_year, df_ins_dist,
                      LAMBDA r : Some(r.year) = sel_year_ins_dist)
    /\ (rendered.key = "txn_state_bar" /\ df_year_filter # <<>>) =>
          /\ rendered.rows[1] \in Range(df_year_filter)
          /\ \A i \in 1..Len(df_year_filter) :
                rendered.rows[1].total_txn_amount >= df_year_filter[i].total_txn_amount

\* the user selected the earlier of two years; the grouped result has two rows
\* of that year and one of the other; the state of the larger amount leads
\* the chart
FilterWitness ==
    /\ rendered.key = "txn_state_bar"
    /\ years_available = <<2021, 2022>>
    /\ sel_year_txn = Some(2021)
    /\ Len(df_state_year) = 3
    /\ Len(df_year_filter) = 2
    /\ rendered.rows[1].state = "A"
    /\ rendered.rows[1].total_txn_amount > rendered.rows[2].total_txn_amount

(***************************************************************************)
(* C13.  Year selection: for every year selector the offered options are   *)
(* exactly the distinct years of the grouped result in ascending order;    *)
(* the selection made when the session holds no value for the selector is  *)
(* the maximum year; whatever the user has selected so far, the selected   *)
(* year is one of the options; so each frame filtered by year alone is     *)
(* non-empty whenever its grouped result is non-empty.                     *)
(***************************************************************************)
YearsOf(df) == {df[i].year : i \in 1..Len(df)}

\* options: the distinct years of df, ascending; sel: one of them (None if none)
YearSelectorOk(options, sel, df) ==
    /\ Range(options) = YearsOf(df)
    /\ \A i, j \in 1..Len(options) : i < j => options[i] < options[j]
    /\ IF options = <<>> THEN IsNone(sel)
       ELSE ~IsNone(sel) /\ sel[1] \in Range(options)

YearSelectorsOk ==
    /\ YearSelectorOk(years_available, sel_year_txn, df_state_year)
    /\ YearSelectorOk(years_device, sel_year_dev, df_state_brand)
    /\ YearSelectorOk(years_eng, sel_year_eng, df_engagement)
    /\ YearSelectorOk(years_ins, sel_year_ins, df_ins_state)
    /\ YearSelectorOk(years_ins_dist, sel_year_ins_dist, df_ins_dist)
    /\ df_state_year # <<>> => df_year_filter # <<>>
    /\ df_engagement # <<>> => df_eng_y # <<>>
    /\ df_ins_state # <<>> => df_ins_year_sel # <<>>
    /\ df_ins_dist # <<>> => df_ins_dist_year # <<>>

\* a step that draws the selector of a key for which the session holds no
\* value selects the maximum year of the grouped result
DefaultIsMax(key, at, sel, df) ==
    (pc = at /\ pc' # at /\ IsNone(session_state[key]) /\ df # <<>>)
        => sel = Some(SetMax(YearsOf(df)))

DefaultIsMaxYear ==
    /\ DefaultIsMax("txn_state_year", "txn", sel_year_txn', df_state_year')
    /\ DefaultIsMax("device_year", "device", sel_year_dev', df_state_brand')
    /\ DefaultIsMax("eng_year", "engagement", sel_year_eng', df_engagement')
    /\ DefaultIsMax("ins_state_year", "ins_states", sel_year_ins', df_ins_state')
    /\ DefaultIsMax("ins_dist_year", "ins_districts", sel_year_ins_dist', df_ins_dist')

YearSelection == []YearSelectorsOk /\ [][DefaultIsMaxYear]_vars

\* the user selected the earlier of the two years of the insurance result;
\* the run that followed offers both years and shows the rows of that year
YearSelectionWitness ==
    /\ pc = "done"
    /\ years_ins = <<2021, 2022>>
    /\ sel_year_ins = Some(2021)
    /\ session_state["ins_state_year"] = Some(2021)
    /\ df_ins_year_sel # <<>>
    /\ Len(df_ins_state) > Len(df_ins_year_sel)

====
